---------------------------- MODULE Spec2Model ----------------------------
(***************************************************************************)
(* Model of ir/irtype.cpp of LDC: the lowering of D semantic types (Type)  *)
(* to LLVM types, cached in the ctype slot of every Type.                  *)
(*                                                                         *)
(* The lowering is a recursive, re-entrant call chain.  It is modelled as  *)
(* a call stack of frames; every action is one function body from its      *)
(* entry (or from the return of the call it made) up to its next call or   *)
(* its return.  The build modelled has assertions enabled: a failed        *)
(* assert and llvm_unreachable stop the process.                           *)
(***************************************************************************)
EXTENDS Integers, Sequences, FiniteSets, TLC

VARIABLES
  triple,   \* global.params.targetTriple: [arch, os, env]
  probeTy,  \* the TY of the scalar type node "probe" of the type graph
  ctype,    \* Type::ctype of every type node: an IrType or NoIrType
  built,    \* number of IrType objects initialised for each unqualified type
  stack,    \* the call stack, innermost frame first
  ret,      \* the value returned by the call that returned last
  status,   \* "running", "assert" (failed assert) or "unreachable"
  result,   \* what the outermost call returned to its caller
  held      \* an IrType a caller obtained from an earlier call and kept

vars == <<triple, probeTy, ctype, built, stack, ret, status, result, held>>

(***************************************************************************)
(* Bounds.                                                                 *)
(***************************************************************************)
\* The deepest call stack the model follows; the lowering of the type graph
\* below needs fewer frames, so the cap only stops a diverging recursion.
MaxDepth == 40

(***************************************************************************)
(* LLVM types, as tagged tuples.                                           *)
(***************************************************************************)
LLNone == <<"none">>
LLVoid == <<"void">>
LLInt(w) == <<"int", w>>
LLFloat == <<"float">>
LLDouble == <<"double">>
LLX86_FP80 == <<"x86_fp80">>
LLFP128 == <<"fp128">>
\* llvm::PointerType::get(elem, addressSpace)
LLPointer(elem, as) == <<"ptr", elem, as>>
\* llvm::ArrayType::get(elem, dim)
LLArray(elem, dim) == <<"array", elem, dim>>
\* llvm::VectorType::get(elem, lanes, scalable)
LLVector(elem, lanes, scalable) == <<"vector", elem, lanes, scalable>>
\* llvm::StructType::get(ctx, fields, packed): a literal struct
LLStruct(fields, packed) == <<"struct", fields, packed>>
\* llvm::StructType::create(ctx, name): an identified, forward-declarable struct
LLNamed(name) == <<"named", name>>

(***************************************************************************)
(* Target triples.                                                         *)
(***************************************************************************)
Archs == {"x86", "x86_64", "aarch64", "aarch64_be", "arm"}
OSs == {"Linux", "Darwin", "Win32"}
Envs == {"UnknownEnvironment", "GNU", "MSVC", "Android"}
Triples == [arch : Archs, os : OSs, env : Envs]

\* llvm::Triple::isWindowsMSVCEnvironment
isWindowsMSVCEnvironment(tr) ==
  tr.os = "Win32" /\ tr.env \in {"UnknownEnvironment", "MSVC"}

\* llvm::Triple::isOSDarwin
isOSDarwin(tr) == tr.os = "Darwin"

getReal80Type_ignoresMSVC(tr) ==
  LET a == tr.arch
      anyX86 == (a = "x86") \/ (a = "x86_64")
      anyAarch64 == (a = "aarch64") \/ (a = "aarch64_be")
      isAndroid == tr.env = "Android"
  IN  IF anyX86 /\ ~isAndroid
        THEN LLX86_FP80
        ELSE IF (anyAarch64 /\ ~isOSDarwin(tr)) \/ (isAndroid /\ a = "x86_64")
               THEN LLFP128
               ELSE LLDouble

getReal80Type_noBigEndian(tr) ==
  LET a == tr.arch
      anyX86 == (a = "x86") \/ (a = "x86_64")
      anyAarch64 == (a = "aarch64")
      isAndroid == tr.env = "Android"
  IN  IF anyX86 /\ ~isWindowsMSVCEnvironment(tr) /\ ~isAndroid
        THEN LLX86_FP80
        ELSE IF (anyAarch64 /\ ~isOSDarwin(tr)) \/ (isAndroid /\ a = "x86_64")
               THEN LLFP128
               ELSE LLDouble

getReal80Type_ignoresAndroid(tr) ==
  LET a == tr.arch
      anyX86 == (a = "x86") \/ (a = "x86_64")
      anyAarch64 == (a = "aarch64") \/ (a = "aarch64_be")
      isAndroid == tr.env = "Android"
  IN  IF anyX86 /\ ~isWindowsMSVCEnvironment(tr)
        THEN LLX86_FP80
        ELSE IF (anyAarch64 /\ ~isOSDarwin(tr)) \/ (isAndroid /\ a = "x86_64")
               THEN LLFP128
               ELSE LLDouble

getReal80Type(tr) ==
  LET a == tr.arch
      anyX86 == (a = "x86") \/ (a = "x86_64")
      anyAarch64 == (a = "aarch64") \/ (a = "aarch64_be")
      isAndroid == tr.env = "Android"
  IN  IF anyX86 /\ ~isWindowsMSVCEnvironment(tr) /\ ~isAndroid
        THEN LLX86_FP80
        ELSE IF (anyAarch64 /\ ~isOSDarwin(tr)) \/ (isAndroid /\ a = "x86_64")
               THEN LLFP128
               ELSE LLDouble

\* IrTypeBasic::getComplexType
getComplexType(type) == LLStruct(<<type, type>>, FALSE)

(***************************************************************************)
(* Scalar lowering.                                                        *)
(***************************************************************************)
BasicTys ==
  {"Tvoid", "Tnoreturn", "Tint8", "Tuns8", "Tchar", "Tint16", "Tuns16",
   "Twchar", "Tint32", "Tuns32", "Tdchar", "Tint64", "Tuns64", "Tint128",
   "Tuns128", "Tfloat32", "Timaginary32", "Tfloat64", "Timaginary64",
   "Tfloat80", "Timaginary80", "Tcomplex32", "Tcomplex64", "Tcomplex80",
   "Tbool"}

\* the kinds the other constructors and getIrType test for: basic2llvm has
\* no case for them
NonBasicTys ==
  {"Tpointer", "Tnull", "Tsarray", "Tarray", "Tvector", "Tstruct", "Tclass"}

\* the result of basic2llvm when control reaches llvm_unreachable
LLUnreachable == <<"unreachable">>

basic2llvm_complex80AsDouble(ty, tr) ==
  CASE ty \in {"Tvoid", "Tnoreturn"} -> LLVoid
    [] ty \in {"Tint8", "Tuns8", "Tchar"} -> LLInt(8)
    [] ty \in {"Tint16", "Tuns16", "Twchar"} -> LLInt(16)
    [] ty \in {"Tint32", "Tuns32", "Tdchar"} -> LLInt(32)
    [] ty \in {"Tint64", "Tuns64"} -> LLInt(64)
    [] ty \in {"Tint128", "Tuns128"} -> LLInt(128)
    [] ty \in {"Tfloat32", "Timaginary32"} -> LLFloat
    [] ty \in {"Tfloat64", "Timaginary64"} -> LLDouble
    [] ty \in {"Tfloat80", "Timaginary80"} -> getReal80Type(tr)
    [] ty = "Tcomplex32" -> getComplexType(LLFloat)
    [] ty = "Tcomplex64" -> getComplexType(LLDouble)
    [] ty = "Tcomplex80" -> getComplexType(LLDouble)
    [] ty = "Tbool" -> LLInt(1)
    [] OTHER -> LLUnreachable

basic2llvm_wcharAsInt32(ty, tr) ==
  CASE ty \in {"Tvoid", "Tnoreturn"} -> LLVoid
    [] ty \in {"Tint8", "Tuns8", "Tchar"} -> LLInt(8)
    [] ty \in {"Tint16", "Tuns16"} -> LLInt(16)
    [] ty \in {"Tint32", "Tuns32", "Tdchar", "Twchar"} -> LLInt(32)
    [] ty \in {"Tint64", "Tuns64"} -> LLInt(64)
    [] ty \in {"Tint128", "Tuns128"} -> LLInt(128)
    [] ty \in {"Tfloat32", "Timaginary32"} -> LLFloat
    [] ty \in {"Tfloat64", "Timaginary64"} -> LLDouble
    [] ty \in {"Tfloat80", "Timaginary80"} -> getReal80Type(tr)
    [] ty = "Tcomplex32" -> getComplexType(LLFloat)
    [] ty = "Tcomplex64" -> getComplexType(LLDouble)
    [] ty = "Tcomplex80" -> getComplexType(getReal80Type(tr))
    [] ty = "Tbool" -> LLInt(1)
    [] OTHER -> LLUnreachable

\* IrTypeBasic::basic2llvm, of t->ty and the target
basic2llvm(ty, tr) ==
  CASE ty \in {"Tvoid", "Tnoreturn"} -> LLVoid
    [] ty \in {"Tint8", "Tuns8", "Tchar"} -> LLInt(8)
    [] ty \in {"Tint16", "Tuns16", "Twchar"} -> LLInt(16)
    [] ty \in {"Tint32", "Tuns32", "Tdchar"} -> LLInt(32)
    [] ty \in {"Tint64", "Tuns64"} -> LLInt(64)
    [] ty \in {"Tint128", "Tuns128"} -> LLInt(128)
    [] ty \in {"Tfloat32", "Timaginary32"} -> LLFloat
    [] ty \in {"Tfloat64", "Timaginary64"} -> LLDouble
    [] ty \in {"Tfloat80", "Timaginary80"} -> getReal80Type(tr)
    [] ty = "Tcomplex32" -> getComplexType(LLFloat)
    [] ty = "Tcomplex64" -> getComplexType(LLDouble)
    [] ty = "Tcomplex80" -> getComplexType(getReal80Type(tr))
    [] ty = "Tbool" -> LLInt(1)
    [] OTHER -> LLUnreachable

(***************************************************************************)
(* The type graph (dmd's Type nodes).  A qualified type (const, immutable) *)
(* is a node of its own with the ty of the type it qualifies; unq names    *)
(* the unqualified node.  sym is sym->type of an aggregate's declaration.  *)
(*   struct S { S* next; S[] kids; S[1]* one; S*[2] pair;                  *)
(*              __vector(S*[2]) lanes; }                                   *)
(*   class C { C next; }                                                   *)
(***************************************************************************)
NoType == ""

Node(ty, mod, unq, next, dim, sym, fields) ==
  [ty |-> ty, mod |-> mod, unq |-> unq, next |-> next, dim |-> dim,
   sym |-> sym, fields |-> fields]

Unqualified(ty, self, next, dim) == Node(ty, "", self, next, dim, NoType, <<>>)

Qualified(mod, unq, ty, next, dim, sym) == Node(ty, mod, unq, next, dim, sym, <<>>)

TypeTable ==
  [probe |-> Unqualified("Tint8", "probe", NoType, 0),
   null  |-> Unqualified("Tnull", "null", NoType, 0),
   S     |-> Node("Tstruct", "", "S", NoType, 0, "S",
                  <<"pS", "aS", "pfS", "f2pS", "vpS">>),
   C     |-> Node("Tclass", "", "C", NoType, 0, "C", <<"C">>),
   pS    |-> Unqualified("Tpointer", "pS", "S", 0),
   aS    |-> Unqualified("Tarray", "aS", "S", 0),
   fS    |-> Unqualified("Tsarray", "fS", "S", 1),
   pfS   |-> Unqualified("Tpointer", "pfS", "fS", 0),
   f2pS  |-> Unqualified("Tsarray", "f2pS", "pS", 2),
   vpS   |-> Unqualified("Tvector", "vpS", "f2pS", 0),
   apS   |-> Unqualified("Tarray", "apS", "pS", 0),
   ab    |-> Unqualified("Tarray", "ab", "probe", 0),
   s4    |-> Unqualified("Tsarray", "s4", "probe", 4),
   s0    |-> Unqualified("Tsarray", "s0", "s4", 0),
   sL    |-> Unqualified("Tsarray", "sL", "s0", 70000),
   v4    |-> Unqualified("Tvector", "v4", "s4", 0),
   cB    |-> Qualified("const", "probe", "Tint8", NoType, 0, NoType),
   iB    |-> Qualified("immutable", "probe", "Tint8", NoType, 0, NoType),
   cpS   |-> Qualified("const", "pS", "Tpointer", "S", 0, NoType),
   cab   |-> Qualified("const", "ab", "Tarray", "probe", 0, NoType),
   cs4   |-> Qualified("const", "s4", "Tsarray", "probe", 4, NoType),
   cv4   |-> Qualified("const", "v4", "Tvector", "s4", 0, NoType),
   cS    |-> Qualified("const", "S", "Tstruct", NoType, 0, "S"),
   cC    |-> Qualified("const", "C", "Tclass", NoType, 0, "C")]

Types == DOMAIN TypeTable

\* the nodes whose ty is the ty of the scalar node
ProbeTypes == {t \in Types : TypeTable[t].unq = "probe"}

UnqualifiedTypes == {t \in Types : TypeTable[t].mod = ""}

QualifiedTypes == Types \ UnqualifiedTypes

\* Type::ty
Ty(t) == IF t \in ProbeTypes THEN probeTy ELSE TypeTable[t].ty

\* Type::nextOf(); for a vector, basetype (a TypeSArray) and TypeSArray::next
nextOf(t) == TypeTable[t].next

\* TypeSArray::dim->toUInteger()
dimOf(t) == TypeTable[t].dim

stripModifiers(t) == IF TypeTable[t].mod = "" THEN t ELSE TypeTable[t].unq

(***************************************************************************)
(* IrType objects.  n is the ordinal of the object among those initialised *)
(* for its type, so two objects for one type are two distinct values.      *)
(***************************************************************************)
NoIrType == [dtype |-> NoType, kind |-> "none", type |-> LLNone, n |-> 0]

IrType(dt, kind, lt, n) == [dtype |-> dt, kind |-> kind, type |-> lt, n |-> n]

NoRet == [inst |-> NoIrType, ll |-> LLNone]

NoResult ==
  [fn |-> "none", arg |-> NoType, create |-> FALSE, slot |-> NoType,
   inst |-> NoIrType]

Frame(fn, t, create) ==
  [fn |-> fn, arg |-> t, t |-> t, pc |-> "entry", create |-> create, i |-> 0]

Top == Head(stack)

Running == status = "running" /\ stack # <<>>

Idle == status = "running" /\ stack = <<>>

\* the conditions of getIrType's two asserts on its argument
CanonicalAggregate(t) ==
  /\ (Ty(t) # "Tstruct" \/ t = TypeTable[t].sym)
  /\ (Ty(t) # "Tclass" \/ t = TypeTable[t].sym)

\* a failed assert or llvm_unreachable: the process stops where it is
Abort(how) ==
  /\ status' = how
  /\ UNCHANGED <<triple, probeTy, ctype, stack, ret, result, held>>

\* the top frame calls callee and is left as resumed until the call returns
Call(callee, resumed) ==
  /\ Len(stack) < MaxDepth
  /\ stack' = <<callee, resumed>> \o Tail(stack)

\* the top frame returns rv; the outermost frame returns to the caller
Return(rv, slot) ==
  /\ stack' = Tail(stack)
  /\ IF Len(stack) = 1
       THEN /\ result' = [fn |-> Top.fn, arg |-> Top.arg, create |-> Top.create,
                          slot |-> slot, inst |-> rv.inst]
            /\ ret' = NoRet
       ELSE /\ ret' = rv
            /\ UNCHANGED result

(***************************************************************************)
(* The entry point.                                                        *)
(***************************************************************************)
\* an external caller calls getIrType(t, create)
Request(t, create) ==
  /\ Idle
  /\ stack' = <<Frame("getIrType", t, create)>>
  /\ result' = NoResult
  /\ UNCHANGED <<triple, probeTy, ctype, built, ret, status, held>>

\* the caller keeps the IrType that getIrType(t, true) has just returned
Retain ==
  /\ Idle
  /\ result.fn = "getIrType" /\ result.create
  /\ held = NoResult
  /\ held' = result
  /\ UNCHANGED <<triple, probeTy, ctype, built, stack, ret, status, result>>

\* an external caller calls a category constructor itself: fn(t)
DirectCall(fn, t) ==
  /\ Idle
  /\ stack' = <<Frame(fn, t, TRUE)>>
  /\ result' = NoResult
  /\ UNCHANGED <<triple, probeTy, ctype, built, ret, status, held>>

getIrType_noStrip ==
  /\ Running /\ Top.fn = "getIrType" /\ Top.pc = "entry"
  /\ UNCHANGED built
  /\ IF ~CanonicalAggregate(Top.t)
       THEN Abort("assert")
       ELSE /\ UNCHANGED <<triple, probeTy, ctype, status, held>>
            /\ IF Top.create
                 THEN /\ Call(Frame("DtoType", Top.t, TRUE),
                              [Top EXCEPT !.pc = "created"])
                      /\ UNCHANGED <<ret, result>>
                 ELSE Return([inst |-> ctype[Top.t], ll |-> LLNone], Top.t)

getIrType_createInverted ==
  /\ Running /\ Top.fn = "getIrType" /\ Top.pc = "entry"
  /\ UNCHANGED built
  /\ IF ~CanonicalAggregate(Top.t)
       THEN Abort("assert")
       ELSE LET t == stripModifiers(Top.t) IN
            /\ UNCHANGED <<triple, probeTy, ctype, status, held>>
            /\ IF ~Top.create
                 THEN /\ Call(Frame("DtoType", t, TRUE),
                              [Top EXCEPT !.t = t, !.pc = "created"])
                      /\ UNCHANGED <<ret, result>>
                 ELSE Return([inst |-> ctype[t], ll |-> LLNone], t)

getIrType_canonicalOnlyOnLookup ==
  /\ Running /\ Top.fn = "getIrType" /\ Top.pc = "entry"
  /\ UNCHANGED built
  /\ IF ~CanonicalAggregate(Top.t) /\ ~Top.create
       THEN Abort("assert")
       ELSE LET t == stripModifiers(Top.t) IN
            /\ UNCHANGED <<triple, probeTy, ctype, status, held>>
            /\ IF Top.create
                 THEN /\ Call(Frame("DtoType", t, TRUE),
                              [Top EXCEPT !.t = t, !.pc = "created"])
                      /\ UNCHANGED <<ret, result>>
                 ELSE Return([inst |-> ctype[t], ll |-> LLNone], t)

getIrType_delegatesOnlyIfEmpty ==
  /\ Running /\ Top.fn = "getIrType" /\ Top.pc = "entry"
  /\ UNCHANGED built
  /\ IF ~CanonicalAggregate(Top.t)
       THEN Abort("assert")
       ELSE LET t == stripModifiers(Top.t) IN
            /\ UNCHANGED <<triple, probeTy, ctype, status, held>>
            /\ IF Top.create /\ ctype[t] = NoIrType
                 THEN /\ Call(Frame("DtoType", t, TRUE),
                              [Top EXCEPT !.t = t, !.pc = "created"])
                      /\ UNCHANGED <<ret, result>>
                 ELSE Return([inst |-> ctype[t], ll |-> LLNone], t)

getIrType_alwaysCreates ==
  /\ Running /\ Top.fn = "getIrType" /\ Top.pc = "entry"
  /\ UNCHANGED built
  /\ IF ~CanonicalAggregate(Top.t)
       THEN Abort("assert")
       ELSE LET t == stripModifiers(Top.t) IN
            /\ UNCHANGED <<triple, probeTy, ctype, status, held>>
            /\ Call(Frame("DtoType", t, TRUE),
                    [Top EXCEPT !.t = t, !.pc = "created"])
            /\ UNCHANGED <<ret, result>>

\* getIrType up to its call of DtoType, or to its return when create is false
getIrType ==
  /\ Running /\ Top.fn = "getIrType" /\ Top.pc = "entry"
  /\ UNCHANGED built
  /\ IF ~CanonicalAggregate(Top.t)
       THEN Abort("assert")
       ELSE LET t == stripModifiers(Top.t) IN
            /\ UNCHANGED <<triple, probeTy, ctype, status, held>>
            /\ IF Top.create
                 THEN /\ Call(Frame("DtoType", t, TRUE),
                              [Top EXCEPT !.t = t, !.pc = "created"])
                      /\ UNCHANGED <<ret, result>>
                 ELSE Return([inst |-> ctype[t], ll |-> LLNone], t)

getIrType_created_returnsArgSlot ==
  /\ Running /\ Top.fn = "getIrType" /\ Top.pc = "created"
  /\ UNCHANGED built
  /\ IF ctype[Top.t] = NoIrType
       THEN Abort("assert")
       ELSE /\ UNCHANGED <<triple, probeTy, ctype, status, held>>
            /\ Return([inst |-> ctype[Top.arg], ll |-> LLNone], Top.arg)

\* getIrType from the return of DtoType: assert(t->ctype); return t->ctype
getIrType_created ==
  /\ Running /\ Top.fn = "getIrType" /\ Top.pc = "created"
  /\ UNCHANGED built
  /\ IF ctype[Top.t] = NoIrType
       THEN Abort("assert")
       ELSE /\ UNCHANGED <<triple, probeTy, ctype, status, held>>
            /\ Return([inst |-> ctype[Top.t], ll |-> LLNone], Top.t)

(***************************************************************************)
(* The collaborators of gen/tollvm.cpp and ir/irtypeaggr.cpp.              *)
(***************************************************************************)
\* the category constructor DtoType dispatches a ty to
CategoryOf(ty) ==
  CASE ty \in BasicTys -> "IrTypeBasic_get"
    [] ty \in {"Tnull", "Tpointer"} -> "IrTypePointer_get"
    [] ty = "Tarray" -> "IrTypeArray_get"
    [] ty = "Tsarray" -> "IrTypeSArray_get"
    [] ty = "Tvector" -> "IrTypeVector_get"
    [] ty \in {"Tstruct", "Tclass"} -> "IrTypeAggr_get"
    [] OTHER -> "none"

\* DtoType: the cached lowering, or the call of the category constructor
DtoType ==
  /\ Running /\ Top.fn = "DtoType" /\ Top.pc = "entry"
  /\ UNCHANGED built
  /\ LET t == stripModifiers(Top.t) IN
     IF ctype[t] # NoIrType
       THEN /\ UNCHANGED <<triple, probeTy, ctype, status, held>>
            /\ Return([inst |-> ctype[t], ll |-> ctype[t].type], t)
       ELSE IF CategoryOf(Ty(t)) = "none"
              THEN Abort("unreachable")
              ELSE /\ UNCHANGED <<triple, probeTy, ctype, status, held, ret, result>>
                   /\ Call(Frame(CategoryOf(Ty(t)),
                                 IF Ty(t) \in {"Tstruct", "Tclass"}
                                   THEN TypeTable[t].sym ELSE t, TRUE),
                           [Top EXCEPT !.t = t, !.pc = "built"])

\* DtoType from the return of the category constructor: ->getLLType()
DtoType_built ==
  /\ Running /\ Top.fn = "DtoType" /\ Top.pc = "built"
  /\ UNCHANGED <<triple, probeTy, ctype, built, status, held>>
  /\ Return([inst |-> ret.inst, ll |-> ret.inst.type], Top.t)

\* the memory representation of a machine type: void and i1 take a byte
MemType(ll) == IF ll = LLVoid \/ ll = LLInt(1) THEN LLInt(8) ELSE ll

\* DtoMemType: lowers t through the entry point
DtoMemType ==
  /\ Running /\ Top.fn = "DtoMemType" /\ Top.pc = "entry"
  /\ UNCHANGED <<triple, probeTy, ctype, built, status, held, ret, result>>
  /\ Call(Frame("getIrType", Top.t, TRUE), [Top EXCEPT !.pc = "lowered"])

\* DtoMemType from the return of the entry point
DtoMemType_lowered ==
  /\ Running /\ Top.fn = "DtoMemType" /\ Top.pc = "lowered"
  /\ UNCHANGED <<triple, probeTy, ctype, built, status, held>>
  /\ Return([inst |-> NoIrType, ll |-> MemType(ret.inst.type)], Top.t)

\* DtoSize_t: the integer of the target's pointer width
DtoSize_t(tr) == LLInt(IF tr.arch \in {"x86", "arm"} THEN 32 ELSE 64)

(***************************************************************************)
(* The category constructors.                                              *)
(***************************************************************************)
IrType_ctor_noAssert(dt) == TRUE

\* IrType::IrType: assert(!getIrType(dt)); dt and lt are never null here
IrType_ctor(dt) ==
  CanonicalAggregate(dt) /\ ctype[stripModifiers(dt)] = NoIrType

Construct_storesArgSlot(dt, kind, lt) ==
  LET u == stripModifiers(dt)
      obj == IrType(dt, kind, lt, built[u] + 1)
  IN  /\ built' = [built EXCEPT ![u] = @ + 1]
      /\ IF IrType_ctor(dt)
           THEN /\ ctype' = [ctype EXCEPT ![dt] = obj]
                /\ UNCHANGED <<triple, probeTy, status, held>>
                /\ Return([inst |-> obj, ll |-> LLNone], dt)
           ELSE Abort("assert")

\* new IrTypeX(dt, lt), the store into the slot of dt and the return of the
\* new object; the object is initialised before the constructor's assert
Construct(dt, kind, lt) ==
  LET u == stripModifiers(dt)
      obj == IrType(dt, kind, lt, built[u] + 1)
  IN  /\ built' = [built EXCEPT ![u] = @ + 1]
      /\ IF IrType_ctor(dt)
           THEN /\ ctype' = [ctype EXCEPT ![u] = obj]
                /\ UNCHANGED <<triple, probeTy, status, held>>
                /\ Return([inst |-> obj, ll |-> LLNone], u)
           ELSE Abort("assert")

\* the composite's slot was filled while its element was lowered: the
\* existing object is returned, as the category asked for (isPointer(), ...)
Existing(dt, kind) ==
  LET u == stripModifiers(dt) IN
  /\ UNCHANGED <<triple, probeTy, ctype, built, status, held>>
  /\ Return([inst |-> IF ctype[u].kind = kind THEN ctype[u] ELSE NoIrType,
             ll |-> LLNone], u)

\* the entry of a composite's constructor: the assert on the kind, the
\* assert(!ctype) and the call of DtoMemType on the element type
LowerElement(kindOk, elem) ==
  /\ UNCHANGED built
  /\ IF ~kindOk \/ ctype[stripModifiers(Top.t)] # NoIrType
       THEN Abort("assert")
       ELSE /\ UNCHANGED <<triple, probeTy, ctype, status, held, ret, result>>
            /\ Call(Frame("DtoMemType", elem, TRUE), [Top EXCEPT !.pc = "elem"])

\* IrTypeBasic::get
IrTypeBasic_get ==
  /\ Running /\ Top.fn = "IrTypeBasic_get" /\ Top.pc = "entry"
  /\ IF basic2llvm(Ty(Top.t), triple) = LLUnreachable
       THEN Abort("unreachable") /\ UNCHANGED built
       ELSE Construct(Top.t, "basic", basic2llvm(Ty(Top.t), triple))

\* IrTypePointer::get up to the call of DtoMemType; the null type is built here
IrTypePointer_get ==
  /\ Running /\ Top.fn = "IrTypePointer_get" /\ Top.pc = "entry"
  /\ IF Ty(Top.t) = "Tnull" /\ ctype[stripModifiers(Top.t)] = NoIrType
       THEN Construct(Top.t, "pointer", LLPointer(LLInt(8), 0))
       ELSE LowerElement(Ty(Top.t) \in {"Tpointer", "Tnull"}, nextOf(Top.t))

IrTypePointer_get_elem_bytePointee ==
  /\ Running /\ Top.fn = "IrTypePointer_get" /\ Top.pc = "elem"
  /\ IF ctype[stripModifiers(Top.t)] # NoIrType
       THEN Existing(Top.t, "pointer")
       ELSE Construct(Top.t, "pointer", LLPointer(LLInt(8), 0))

IrTypePointer_get_elem_noRecheck ==
  /\ Running /\ Top.fn = "IrTypePointer_get" /\ Top.pc = "elem"
  /\ Construct(Top.t, "pointer", LLPointer(ret.ll, 0))

IrTypePointer_get_elem_overwrites ==
  /\ Running /\ Top.fn = "IrTypePointer_get" /\ Top.pc = "elem"
  /\ LET u == stripModifiers(Top.t)
         obj == IrType(Top.t, "pointer", LLPointer(LLInt(8), 0), built[u] + 1)
     IN  IF ctype[u] # NoIrType
           THEN /\ built' = [built EXCEPT ![u] = @ + 1]
                /\ ctype' = [ctype EXCEPT ![u] = obj]
                /\ UNCHANGED <<triple, probeTy, status, held>>
                /\ Return([inst |-> obj, ll |-> LLNone], u)
           ELSE Construct(Top.t, "pointer", LLPointer(ret.ll, 0))

\* IrTypePointer::get from the return of DtoMemType
IrTypePointer_get_elem ==
  /\ Running /\ Top.fn = "IrTypePointer_get" /\ Top.pc = "elem"
  /\ IF ctype[stripModifiers(Top.t)] # NoIrType
       THEN Existing(Top.t, "pointer")
       ELSE Construct(Top.t, "pointer", LLPointer(ret.ll, 0))

\* IrTypeSArray::get up to the call of DtoMemType
IrTypeSArray_get ==
  /\ Running /\ Top.fn = "IrTypeSArray_get" /\ Top.pc = "entry"
  /\ LowerElement(Ty(Top.t) = "Tsarray", nextOf(Top.t))

IrTypeSArray_get_elem_dim16 ==
  /\ Running /\ Top.fn = "IrTypeSArray_get" /\ Top.pc = "elem"
  /\ IF ctype[stripModifiers(Top.t)] # NoIrType
       THEN Existing(Top.t, "sarray")
       ELSE Construct(Top.t, "sarray", LLArray(ret.ll, dimOf(Top.t) % 65536))

\* IrTypeSArray::get from the return of DtoMemType
IrTypeSArray_get_elem ==
  /\ Running /\ Top.fn = "IrTypeSArray_get" /\ Top.pc = "elem"
  /\ IF ctype[stripModifiers(Top.t)] # NoIrType
       THEN Existing(Top.t, "sarray")
       ELSE Construct(Top.t, "sarray", LLArray(ret.ll, dimOf(Top.t)))

IrTypeArray_get_opaqueElement ==
  /\ Running /\ Top.fn = "IrTypeArray_get" /\ Top.pc = "entry"
  /\ IF Ty(Top.t) # "Tarray" \/ ctype[stripModifiers(Top.t)] # NoIrType
       THEN Abort("assert") /\ UNCHANGED built
       ELSE Construct(Top.t, "array",
                      LLStruct(<<DtoSize_t(triple), LLPointer(LLInt(8), 0)>>,
                               FALSE))

\* IrTypeArray::get up to the call of DtoMemType
IrTypeArray_get ==
  /\ Running /\ Top.fn = "IrTypeArray_get" /\ Top.pc = "entry"
  /\ LowerElement(Ty(Top.t) = "Tarray", nextOf(Top.t))

IrTypeArray_get_elem_swapped ==
  /\ Running /\ Top.fn = "IrTypeArray_get" /\ Top.pc = "elem"
  /\ IF ctype[stripModifiers(Top.t)] # NoIrType
       THEN Existing(Top.t, "array")
       ELSE Construct(Top.t, "array",
                      LLStruct(<<LLPointer(ret.ll, 0), DtoSize_t(triple)>>, FALSE))

\* IrTypeArray::get from the return of DtoMemType
IrTypeArray_get_elem ==
  /\ Running /\ Top.fn = "IrTypeArray_get" /\ Top.pc = "elem"
  /\ IF ctype[stripModifiers(Top.t)] # NoIrType
       THEN Existing(Top.t, "array")
       ELSE Construct(Top.t, "array",
                      LLStruct(<<DtoSize_t(triple), LLPointer(ret.ll, 0)>>, FALSE))

\* IrTypeVector::get up to the call of DtoMemType on the base type's element
IrTypeVector_get ==
  /\ Running /\ Top.fn = "IrTypeVector_get" /\ Top.pc = "entry"
  /\ IF Ty(Top.t) = "Tvector" /\ ctype[stripModifiers(Top.t)] = NoIrType
          /\ Ty(nextOf(Top.t)) # "Tsarray"
       THEN Abort("assert") /\ UNCHANGED built
       ELSE LowerElement(Ty(Top.t) = "Tvector",
                         IF Ty(Top.t) = "Tvector"
                           THEN nextOf(nextOf(Top.t)) ELSE NoType)

IrTypeVector_get_elem_noRecheck ==
  /\ Running /\ Top.fn = "IrTypeVector_get" /\ Top.pc = "elem"
  /\ Construct(Top.t, "vector", LLVector(ret.ll, dimOf(nextOf(Top.t)), FALSE))

\* IrTypeVector::get from the return of DtoMemType
IrTypeVector_get_elem ==
  /\ Running /\ Top.fn = "IrTypeVector_get" /\ Top.pc = "elem"
  /\ IF ctype[stripModifiers(Top.t)] # NoIrType
       THEN Existing(Top.t, "vector")
       ELSE Construct(Top.t, "vector",
                      LLVector(ret.ll, dimOf(nextOf(Top.t)), FALSE))

\* IrTypeStruct::get and IrTypeClass::get: the forward-declared struct is
\* stored in the slot before any field is lowered
IrTypeAggr_get ==
  /\ Running /\ Top.fn = "IrTypeAggr_get" /\ Top.pc = "entry"
  /\ LET dt == Top.t
         obj == IrType(dt, IF Ty(dt) = "Tclass" THEN "class" ELSE "struct",
                       LLNamed(dt), built[dt] + 1)
     IN  /\ built' = [built EXCEPT ![dt] = @ + 1]
         /\ IF IrType_ctor(dt)
              THEN /\ ctype' = [ctype EXCEPT ![dt] = obj]
                   /\ stack' = <<[Top EXCEPT !.pc = "fields", !.i = 1]>>
                                 \o Tail(stack)
                   /\ UNCHANGED <<triple, probeTy, status, held, ret, result>>
              ELSE Abort("assert")

\* the lowering of the aggregate's fields, one DtoMemType call each
IrTypeAggr_get_fields ==
  /\ Running /\ Top.fn = "IrTypeAggr_get" /\ Top.pc = "fields"
  /\ UNCHANGED <<triple, probeTy, ctype, built, status, held>>
  /\ IF Top.i <= Len(TypeTable[Top.t].fields)
       THEN /\ Call(Frame("DtoMemType", TypeTable[Top.t].fields[Top.i], TRUE),
                    [Top EXCEPT !.i = @ + 1])
            /\ UNCHANGED <<ret, result>>
       ELSE Return([inst |-> ctype[Top.t], ll |-> LLNone], Top.t)

(***************************************************************************)
(* Specifications.                                                         *)
(***************************************************************************)
\* what Init leaves of the program's state: nothing lowered, no call
InitState ==
  /\ ctype = [t \in Types |-> NoIrType]
  /\ built = [t \in UnqualifiedTypes |-> 0]
  /\ stack = <<>>
  /\ ret = NoRet
  /\ status = "running"
  /\ result = NoResult
  /\ held = NoResult

\* the targets the type graph is lowered for: a 64-bit and a 32-bit one
GraphTriples ==
  {[arch |-> "x86_64", os |-> "Linux", env |-> "GNU"],
   [arch |-> "x86", os |-> "Linux", env |-> "GNU"]}

Init ==
  /\ triple \in GraphTriples
  /\ probeTy = "Tint8"
  /\ InitState

\* every step of a call in progress
Step ==
  \/ getIrType
  \/ getIrType_created
  \/ DtoType
  \/ DtoType_built
  \/ DtoMemType
  \/ DtoMemType_lowered
  \/ IrTypeBasic_get
  \/ IrTypePointer_get
  \/ IrTypePointer_get_elem
  \/ IrTypeSArray_get
  \/ IrTypeSArray_get_elem
  \/ IrTypeArray_get
  \/ IrTypeArray_get_elem
  \/ IrTypeVector_get
  \/ IrTypeVector_get_elem
  \/ IrTypeAggr_get
  \/ IrTypeAggr_get_fields

Next ==
  \/ \E t \in Types, create \in BOOLEAN : Request(t, create)
  \/ Step

\* Any sequence of getIrType calls on the types of the graph.
Spec == Init /\ [][Next]_vars

\* The same; the call in progress always takes its next step (the execution
\* is single-threaded and synchronous: nothing suspends a call).
SpecFair == Spec /\ WF_vars(Step)

InitHeld ==
  /\ triple = [arch |-> "x86_64", os |-> "Linux", env |-> "GNU"]
  /\ probeTy = "Tint8"
  /\ InitState

NextHeld ==
  \/ \E t \in Types, create \in BOOLEAN : Request(t, create)
  \/ Retain
  \/ Step

\* Any sequence of getIrType calls, the caller keeping the IrType that one
\* of them returned.
SpecHeld == InitHeld /\ [][NextHeld]_vars

InitBasic ==
  /\ triple \in Triples
  /\ probeTy \in BasicTys
  /\ InitState

NextBasic ==
  \/ \E t \in ProbeTypes, create \in BOOLEAN : Request(t, create)
  \/ getIrType
  \/ getIrType_created
  \/ DtoType
  \/ DtoType_built
  \/ IrTypeBasic_get

\* The lowering of every scalar kind on every target.
SpecBasic == InitBasic /\ [][NextBasic]_vars

\* the targets the scalar constructor is called on directly
ScalarTriples ==
  {[arch |-> "x86_64", os |-> "Linux", env |-> "GNU"],
   [arch |-> "aarch64", os |-> "Darwin", env |-> "UnknownEnvironment"],
   [arch |-> "x86_64", os |-> "Win32", env |-> "MSVC"]}

InitScalar ==
  /\ triple \in ScalarTriples
  /\ probeTy \in BasicTys \cup NonBasicTys
  /\ InitState

NextScalar ==
  \/ \E t \in ProbeTypes : DirectCall("IrTypeBasic_get", t)
  \/ IrTypeBasic_get

\* IrTypeBasic::get called directly on a type of any kind, scalar or not.
SpecScalar == InitScalar /\ [][NextScalar]_vars

\* the category constructors of this file
Constructors ==
  {"IrTypeBasic_get", "IrTypePointer_get", "IrTypeSArray_get",
   "IrTypeArray_get", "IrTypeVector_get"}

\* the types getIrType is called on between the direct calls
DirectRequests == {"S", "v4"}

\* the types the constructors are called on directly: of each category an
\* unqualified type, and a qualified one
DirectTypes ==
  {"probe", "cB", "null", "pS", "cpS", "fS", "s4", "cs4", "aS", "cab",
   "v4", "cv4"}

NextDirect ==
  \/ \E t \in DirectRequests, create \in BOOLEAN : Request(t, create)
  \/ \E fn \in Constructors, t \in DirectTypes : DirectCall(fn, t)
  \/ Step

\* Any sequence of getIrType calls and of direct calls of the category
\* constructors on the types of the graph.
SpecDirect == InitHeld /\ [][NextDirect]_vars

(***************************************************************************)
(* Properties.                                                             *)
(***************************************************************************)
\* the outermost frame: the call the external caller made
Outermost == stack[Len(stack)]

\* getIrType(t, true), t among ts, is being executed for an external caller
CreateCallOf(ts) ==
  /\ stack # <<>>
  /\ Outermost.fn = "getIrType" /\ Outermost.create /\ Outermost.arg \in ts

\* getIrType(t, true) has just returned to its external caller
CreateReturned == Idle /\ result.fn = "getIrType" /\ result.create

\* C1: over any sequence of getIrType(t, create) calls on the types of the
\* graph, at most one IrType object is ever constructed for each unqualified
\* type: the count of constructions per type never exceeds 1.
C1_SingleConstruction == \A u \in UnqualifiedTypes : built[u] <= 1

\* every type of the graph has been lowered, each by one construction
C1_Witness ==
  Idle /\ \A u \in UnqualifiedTypes : built[u] = 1 /\ ctype[u] # NoIrType

\* a slot that holds an IrType holds the same IrType after the step
SlotsKept == \A t \in Types : ctype[t] # NoIrType => ctype'[t] = ctype[t]

\* getIrType(t, true) has returned, and the caller holds what an earlier
\* getIrType(t, true) returned for the same t
SameCallAgain ==
  CreateReturned /\ held # NoResult /\ result.arg = held.arg

\* C2: for any type t, any two calls getIrType(t, true), at any two points of
\* a call sequence, return the identical IrType; a populated slot is never
\* replaced or cleared.
C2_SameInstance ==
  /\ [](SameCallAgain => result.inst = held.inst)
  /\ [][SlotsKept]_vars

\* the pointer to the record is returned a second time, every type of the
\* graph having been lowered since it was first returned
C2_Witness ==
  /\ SameCallAgain /\ held.arg = "pS" /\ held.inst # NoIrType
  /\ \A u \in UnqualifiedTypes : ctype[u] # NoIrType

\* getIrType(t, true) has returned and the caller holds what an earlier
\* getIrType(t2, true) returned, t and t2 having the same unqualified type
\* and one of them being a qualified type among qs
SameUnderlying(qs) ==
  /\ CreateReturned /\ held # NoResult
  /\ stripModifiers(result.arg) = stripModifiers(held.arg)
  /\ (result.arg \in qs \/ held.arg \in qs)

\* getIrType(Q, true) for Q among qs does not stop at an assert, and returns
\* the IrType that the calls for its unqualified type and for the other
\* qualified types over it return
QualifierTransparent(qs) ==
  /\ CreateCallOf(qs) => status = "running"
  /\ SameUnderlying(qs) => result.inst = held.inst /\ result.inst # NoIrType

\* C3 as stated: for T of any structural kind, records and classes included,
\* and every qualified type Q over T, getIrType(Q, true) completes and
\* returns the IrType of T.
C3_Original == QualifierTransparent(QualifiedTypes)

\* the qualified types over a type that is neither a record nor a class
QualifiedNonAggregates ==
  {q \in QualifiedTypes : Ty(q) \notin {"Tstruct", "Tclass"}}

\* C3, amended: for T a scalar, pointer, fixed array, dynamic array or vector
\* and every qualified type Q over T, getIrType(Q, true) completes and returns
\* the IrType that getIrType(T, true) returns; two qualified types over the
\* same T share it.
C3_QualifierTransparent == QualifierTransparent(QualifiedNonAggregates)

\* immutable(byte) is lowered after const(byte): the same IrType is returned
C3_Witness ==
  /\ CreateReturned /\ result.arg = "iB" /\ held.arg = "cB"
  /\ result.inst = held.inst /\ result.inst # NoIrType

\* the lowering of the record S and of the pointer S* has ended, and the
\* pointee of the pointer's machine type is the record's forward-declared
\* struct
SelfRefDone ==
  /\ CreateReturned /\ result.arg \in {"S", "pS"}
  /\ ctype["S"] # NoIrType /\ ctype["S"].type = LLNamed("S")
  /\ ctype["pS"].kind = "pointer"
  /\ ctype["pS"].type = LLPointer(ctype["S"].type, 0)

\* C4: for the record S with a field of type S*, lowering requested through
\* getIrType(., true) from the record or from the pointer always terminates
\* (the call stack stays bounded and the call returns), and then the
\* pointer's lowered pointee is the record's lowered representation.
C4_SelfReferenceTerminates ==
  /\ [](Len(stack) < MaxDepth)
  /\ CreateCallOf({"S", "pS"}) ~> SelfRefDone

\* the request for the pointer has returned
C4_Witness == SelfRefDone /\ result.arg = "pS" /\ built["pS"] = 1

\* C5: every call getIrType(t, true), from an external caller or nested,
\* either stops at a contract violation or returns the slot of t's
\* unqualified type, non-empty.
C5_CreateReturnsPopulated ==
  /\ CreateReturned =>
       /\ result.inst # NoIrType
       /\ result.inst = ctype[stripModifiers(result.arg)]
  /\ (Running /\ Top.fn = "DtoMemType" /\ Top.pc = "lowered") =>
       /\ ret.inst # NoIrType
       /\ ret.inst = ctype[stripModifiers(Top.t)]

\* the call for the qualified pointer const(S*) has returned a populated slot
C5_Witness ==
  CreateReturned /\ result.arg = "cpS" /\ result.inst = ctype["pS"]
    /\ result.inst.kind = "pointer"

Target(a, o, e) == [arch |-> a, os |-> o, env |-> e]

\* the 80-bit real has been lowered
Real80Lowered == probeTy = "Tfloat80" /\ ctype["probe"] # NoIrType

\* the rows of the table on which the claim and the lowering agree
Real80TableRows ==
  /\ triple = Target("x86_64", "Linux", "GNU")
       => ctype["probe"].type = LLX86_FP80
  /\ triple = Target("x86_64", "Win32", "MSVC")
       => ctype["probe"].type = LLDouble
  /\ triple = Target("aarch64", "Linux", "GNU")
       => ctype["probe"].type = LLFP128
  /\ triple = Target("aarch64", "Darwin", "UnknownEnvironment")
       => ctype["probe"].type = LLDouble
  /\ triple = Target("x86_64", "Linux", "Android")
       => ctype["probe"].type = LLFP128

\* C6 as stated: the table, with AArch64-Android -> 64-bit double.
C6_Original ==
  Real80Lowered =>
    /\ Real80TableRows
    /\ triple = Target("aarch64", "Linux", "Android")
         => ctype["probe"].type = LLDouble

\* C6, amended: x86-64/Linux -> 80-bit extended; x86-64/Windows-MSVC ->
\* 64-bit double; AArch64/Linux -> 128-bit quad; AArch64/Apple-OS -> 64-bit
\* double; AArch64-Android -> 128-bit quad; x86-64-Android -> 128-bit quad.
C6_Real80Table ==
  Real80Lowered =>
    /\ Real80TableRows
    /\ triple = Target("aarch64", "Linux", "Android")
         => ctype["probe"].type = LLFP128

\* the 80-bit real lowered for AArch64-Android
C6_Witness ==
  /\ Real80Lowered /\ triple = Target("aarch64", "Linux", "Android")
  /\ ctype["probe"].type = LLFP128

\* the three rules of the claim, applied in order
ThreeRules(tr) ==
  CASE /\ tr.arch \in {"x86", "x86_64"}
       /\ ~isWindowsMSVCEnvironment(tr)
       /\ tr.env # "Android" -> LLX86_FP80
    [] OTHER ->
         IF \/ tr.arch \in {"aarch64", "aarch64_be"} /\ ~isOSDarwin(tr)
            \/ tr.arch = "x86_64" /\ tr.env = "Android"
           THEN LLFP128
           ELSE LLDouble

\* C7: for every target triple, Tfloat80 and Timaginary80 lower to the result
\* of the three rules applied in order: x86 or x86-64, neither MSVC nor
\* Android -> 80-bit extended; otherwise AArch64 (either byte order) not on
\* an Apple OS, or x86-64 Android -> 128-bit quad; otherwise 64-bit double.
C7_Real80Rules ==
  (probeTy \in {"Tfloat80", "Timaginary80"} /\ ctype["probe"] # NoIrType)
    => ctype["probe"].type = ThreeRules(triple)

\* the imaginary 80-bit real lowered for big-endian AArch64 on Linux
C7_Witness ==
  /\ probeTy = "Timaginary80" /\ ctype["probe"].type = LLFP128
  /\ triple = Target("aarch64_be", "Linux", "GNU")

\* an MSVC target, or an Android target that is not x86-64
MSVCOrOtherAndroid(tr) ==
  isWindowsMSVCEnvironment(tr) \/ (tr.env = "Android" /\ tr.arch # "x86_64")

\* C8 as stated: on every MSVC target and every Android target that is not
\* x86-64, whatever the architecture, the 80-bit real lowers to the double.
C8_Original ==
  (Real80Lowered /\ MSVCOrOtherAndroid(triple))
    => ctype["probe"].type = LLDouble

\* C8, amended: on every MSVC target and every Android target that is not
\* x86-64, the 80-bit real lowers to the 64-bit double, unless the
\* architecture is AArch64 (either byte order) and the OS is not an Apple
\* OS, where it lowers to the 128-bit quad.
C8_DoubleFallback ==
  (Real80Lowered /\ MSVCOrOtherAndroid(triple)) =>
    ctype["probe"].type =
      IF triple.arch \in {"aarch64", "aarch64_be"} /\ ~isOSDarwin(triple)
        THEN LLFP128 ELSE LLDouble

\* the 80-bit real lowered for x86-64 Windows MSVC: the double
C8_Witness ==
  /\ Real80Lowered /\ triple = Target("x86_64", "Win32", "MSVC")
  /\ ctype["probe"].type = LLDouble

\* the real kind of the width of a complex kind
RealOf(ty) ==
  CASE ty = "Tcomplex32" -> "Tfloat32"
    [] ty = "Tcomplex64" -> "Tfloat64"
    [] ty = "Tcomplex80" -> "Tfloat80"

\* C9: on every target, each complex kind lowers to a literal struct of two
\* fields of the same machine type, the lowering of the real kind of that
\* width on that target; complex64 is two doubles on every target.
C9_ComplexLayout ==
  (probeTy \in {"Tcomplex32", "Tcomplex64", "Tcomplex80"}
     /\ ctype["probe"] # NoIrType) =>
    /\ ctype["probe"].type =
         LLStruct(<<basic2llvm(RealOf(probeTy), triple),
                    basic2llvm(RealOf(probeTy), triple)>>, FALSE)
    /\ probeTy = "Tcomplex64"
         => ctype["probe"].type = LLStruct(<<LLDouble, LLDouble>>, FALSE)

\* complex80 lowered for x86-64 Linux: two 80-bit extended floats
C9_Witness ==
  /\ probeTy = "Tcomplex80" /\ triple = Target("x86_64", "Linux", "GNU")
  /\ ctype["probe"].type = LLStruct(<<LLX86_FP80, LLX86_FP80>>, FALSE)

\* the dynamic arrays of the graph: of byte, of the record S, of S*
DynamicArrays == {"ab", "aS", "apS"}

\* C10: the lowering of a dynamic array of T is a literal struct of two
\* fields, field 0 the native size type and field 1 a pointer to the lowered
\* T, for T a byte, the record S and the pointer S*, whether the array's
\* IrType is built by the outer constructor call or by a nested one.
C10_DynamicArrayLayout ==
  \A a \in DynamicArrays :
    ctype[a] # NoIrType =>
      /\ ctype[nextOf(a)] # NoIrType
      /\ ctype[a].kind = "array"
      /\ ctype[a].type =
           LLStruct(<<LLInt(IF triple.arch = "x86_64" THEN 64 ELSE 32),
                      LLPointer(ctype[nextOf(a)].type, 0)>>, FALSE)
      /\ ctype[a].type[2][2] =
           LLPointer(CASE a = "ab" -> LLInt(8)
                       [] a = "aS" -> LLNamed("S")
                       [] a = "apS" -> LLPointer(LLNamed("S"), 0), 0)

\* the outer IrTypeArray::get of S[] resumes after the record was lowered
\* and finds S[] built by the nested call made for the record's field
C10_Witness ==
  /\ Running /\ Top.fn = "IrTypeArray_get" /\ Top.pc = "elem"
  /\ stripModifiers(Top.t) = "aS" /\ ctype["aS"] # NoIrType
  /\ ctype["ab"] # NoIrType

\* the fixed arrays of the graph
FixedArrays == {a \in UnqualifiedTypes : TypeTable[a].ty = "Tsarray"}

\* C11: whenever the slot of a fixed array of N elements of T is populated,
\* it holds a machine array of exactly N elements of the memory type of the
\* lowered T; in particular the arrays of 0, 1 and 70000 elements keep 0, 1
\* and 70000 elements.
C11_FixedArrayDimension ==
  /\ \A a \in FixedArrays :
       ctype[a] # NoIrType =>
         /\ ctype[a].kind = "sarray"
         /\ ctype[nextOf(a)] # NoIrType
         /\ ctype[a].type = LLArray(MemType(ctype[nextOf(a)].type),
                                    TypeTable[a].dim)
  /\ ctype["s0"] # NoIrType => ctype["s0"].type[3] = 0
  /\ ctype["fS"] # NoIrType => ctype["fS"].type[3] = 1
  /\ ctype["sL"] # NoIrType => ctype["sL"].type[3] = 70000

C11_Witness ==
  /\ Idle
  /\ ctype["s0"] # NoIrType /\ ctype["fS"] # NoIrType
  /\ ctype["sL"] # NoIrType /\ ctype["s4"] # NoIrType

\* the width of the machine integer of an integer or character kind
IntegerWidth ==
  [Tint8 |-> 8, Tuns8 |-> 8, Tchar |-> 8,
   Tint16 |-> 16, Tuns16 |-> 16, Twchar |-> 16,
   Tint32 |-> 32, Tuns32 |-> 32, Tdchar |-> 32,
   Tint64 |-> 64, Tuns64 |-> 64,
   Tint128 |-> 128, Tuns128 |-> 128]

\* the machine type of the scalar kinds whose lowering ignores the target
ScalarTable(ty) ==
  CASE ty \in {"Tvoid", "Tnoreturn"} -> LLVoid
    [] ty \in DOMAIN IntegerWidth -> LLInt(IntegerWidth[ty])
    [] ty \in {"Tfloat32", "Timaginary32"} -> LLFloat
    [] ty \in {"Tfloat64", "Timaginary64"} -> LLDouble
    [] ty = "Tbool" -> LLInt(1)

TableKinds ==
  {"Tvoid", "Tnoreturn", "Tfloat32", "Timaginary32", "Tfloat64",
   "Timaginary64", "Tbool"} \cup DOMAIN IntegerWidth

\* C12: when IrTypeBasic::get is called directly, a scalar of a kind of the
\* table gets exactly the table's machine type in its slot, on every target;
\* and for a kind outside the scalar set the call never returns, stops at
\* llvm_unreachable, constructs no IrType and leaves every slot empty.
C12_ScalarTable ==
  /\ (probeTy \in TableKinds /\ ctype["probe"] # NoIrType) =>
       /\ ctype["probe"].kind = "basic"
       /\ ctype["probe"].type = ScalarTable(probeTy)
  /\ probeTy \notin BasicTys =>
       /\ \A t \in Types : ctype[t] = NoIrType
       /\ \A u \in UnqualifiedTypes : built[u] = 0
       /\ result = NoResult
       /\ status \in {"running", "unreachable"}
       /\ status = "running" =>
            \/ stack = <<>>
            \/ ENABLED IrTypeBasic_get

C12_Witness ==
  /\ probeTy = "Tstruct"
  /\ status = "unreachable"
  /\ Len(stack) = 1 /\ Top.fn = "IrTypeBasic_get"
  /\ \A t \in Types : ctype[t] = NoIrType

\* the record and class types that are not the type of their declaration
NonCanonical ==
  {t \in Types : /\ TypeTable[t].ty \in {"Tstruct", "Tclass"}
                 /\ TypeTable[t].sym # t}

\* getIrType is about to run on a non-canonical record or class type
AtNonCanonical ==
  /\ Running /\ Top.fn = "getIrType" /\ Top.pc = "entry"
  /\ Top.t \in NonCanonical

\* C13: the step getIrType takes on a record or class type that is not the
\* type of its declaration, with create true or false, ends in the failed
\* assertion: no frame of the driver is pushed, nothing is returned, no
\* IrType is constructed and every slot is as it was.
C13_NonCanonicalAsserts ==
  [][AtNonCanonical =>
       /\ status' = "assert"
       /\ stack' = stack
       /\ ctype' = ctype
       /\ built' = built
       /\ result' = result]_vars

C13_Witness ==
  /\ status = "assert"
  /\ stack = <<Frame("getIrType", "cS", TRUE)>>
  /\ ctype["S"] = NoIrType
  /\ ctype["probe"] # NoIrType

\* a category constructor is entered on a type whose slot is populated
AtPopulatedEntry ==
  /\ Running /\ Top.fn \in Constructors /\ Top.pc = "entry"
  /\ ctype[stripModifiers(Top.t)] # NoIrType

\* C14: the step a category constructor takes when it is entered on a type
\* whose slot is populated stops the process (at a failed assertion; at
\* llvm_unreachable when IrTypeBasic::get is handed a non-scalar type), returns
\* nothing and leaves every slot as it was; and no slot ever holds a second
\* instance.
C14_PopulatedSlotAsserts ==
  [][/\ AtPopulatedEntry =>
          /\ status' \in {"assert", "unreachable"}
          /\ status' = "unreachable" =>
               (Top.fn = "IrTypeBasic_get" /\ Ty(Top.t) \notin BasicTys)
          /\ ctype' = ctype
          /\ stack' = stack
          /\ result' = result
     /\ \A u \in UnqualifiedTypes : ctype'[u].n <= 1]_vars

C14_Witness ==
  /\ status = "assert"
  /\ stack = <<Frame("IrTypeBasic_get", "probe", TRUE)>>
  /\ built["probe"] = 2
  /\ ctype["probe"] = IrType("probe", "basic", LLInt(8), 1)
  /\ ctype["v4"] # NoIrType

\* the constructors that lower an element or pointee type first
Composites == Constructors \ {"IrTypeBasic_get"}

\* the element has been lowered and the composite's own slot was populated
\* meanwhile: constructor fn is about to re-check the slot
AtRecheck(fn) ==
  /\ Running /\ Top.fn = fn /\ Top.pc = "elem"
  /\ ctype[stripModifiers(Top.t)] # NoIrType

\* C15: in each of the four composite constructors, the step taken after
\* the element's lowering when the composite's own slot has been populated
\* meanwhile returns the instance the slot holds, constructs no IrType and
\* leaves every slot as it was.
C15_ReentrantReturnsExisting ==
  [][\A fn \in Composites :
       AtRecheck(fn) =>
         /\ ctype' = ctype
         /\ built' = built
         /\ status' = "running"
         /\ stack' = Tail(stack)
         /\ (IF Len(stack) = 1 THEN result'.inst ELSE ret'.inst)
              = ctype[stripModifiers(Top.t)]]_vars

C15_Witness ==
  /\ AtRecheck("IrTypeVector_get")
  /\ Top.t = "vpS"
  /\ ctype["vpS"].kind = "vector" /\ built["vpS"] = 1

\* C16: in every reachable state, whether the calls were getIrType calls or
\* direct calls of the constructors, on qualified or unqualified types, the
\* slot of every qualified type is empty, and the slot a call returned is
\* the slot of an unqualified type.
C16_QualifiedSlotsEmpty ==
  /\ \A q \in QualifiedTypes : ctype[q] = NoIrType
  /\ result.slot \in UnqualifiedTypes \cup {NoType}

C16_Witness ==
  /\ Idle
  /\ result.fn = "IrTypeSArray_get" /\ result.arg = "cs4"
  /\ result.slot = "s4" /\ result.inst = ctype["s4"]
  /\ ctype["s4"].dtype = "cs4"
  /\ ctype["cs4"] = NoIrType

\* getIrType is about to run on a type that passes its two asserts
AtGetIrType ==
  /\ Running /\ Top.fn = "getIrType" /\ Top.pc = "entry"
  /\ Top.t \notin NonCanonical

\* the step calls the driver on the unqualified type of getIrType's argument
DriverInvoked ==
  /\ Len(stack') = Len(stack) + 1
  /\ Head(stack').fn = "DtoType" /\ Head(stack').pc = "entry"
  /\ Head(stack').t = stripModifiers(Top.t)

\* C17 as stated: getIrType(t, true) on a type whose slot is populated does
\* not invoke the driver.
C17_Original ==
  [][(AtGetIrType /\ Top.create /\ ctype[stripModifiers(Top.t)] # NoIrType)
       => ~DriverInvoked]_vars

\* C17: getIrType invokes the driver exactly when creation is requested,
\* whether the slot of the unqualified type is empty or populated; it never
\* invokes it when create is false.
C17_DelegatesWheneverCreate ==
  [][AtGetIrType => (DriverInvoked <=> Top.create)]_vars

C17_Witness ==
  /\ Running /\ Len(stack) = 2
  /\ Top.fn = "DtoType" /\ Top.pc = "entry" /\ Top.t = "pS"
  /\ stack[2] = [Frame("getIrType", "cpS", TRUE) EXCEPT !.t = "pS",
                                                       !.pc = "created"]
  /\ ctype["pS"] # NoIrType

\* the pointers, fixed arrays, dynamic arrays and vectors of the graph
CompositeTypes ==
  {t \in UnqualifiedTypes :
     TypeTable[t].ty \in {"Tpointer", "Tsarray", "Tarray", "Tvector"}}

\* the T of a pointer to T, an array of T or a vector of T
ElementOf(t) ==
  IF TypeTable[t].ty = "Tvector" THEN nextOf(nextOf(t)) ELSE nextOf(t)

\* C18: in every reachable state, also in the middle of a lowering, the slot
\* of a pointer to T, fixed array of T, dynamic array of T or vector of T is
\* populated only if the slot of the unqualified T is populated; the null
\* type has no pointee and is not constrained.
C18_ElementLoweredFirst ==
  \A t \in CompositeTypes :
    ctype[t] # NoIrType => ctype[stripModifiers(ElementOf(t))] # NoIrType

C18_Witness ==
  /\ Running
  /\ ctype["null"] # NoIrType
  /\ ctype["S"] # NoIrType /\ ctype["pS"] # NoIrType
  /\ ctype["aS"] = NoIrType /\ ctype["vpS"] = NoIrType
  /\ ctype["v4"] # NoIrType /\ ctype["ab"] # NoIrType

\* getIrType(t, false) is about to run, on any type of the graph
AtLookup ==
  /\ Running /\ Top.fn = "getIrType" /\ Top.pc = "entry"
  /\ ~Top.create

\* C19: the step of getIrType(t, false) pushes no frame (the driver is not
\* invoked), constructs no IrType and leaves every slot as it was; when t
\* passes the canonical-form assertions the call returns, and what it returns
\* is the content of the slot of the unqualified t, empty or not.
C19_LookupLowersNothing ==
  [][AtLookup =>
       /\ ctype' = ctype
       /\ built' = built
       /\ Len(stack') <= Len(stack)
       /\ Top.t \notin NonCanonical =>
            /\ status' = "running"
            /\ stack' = Tail(stack)
            /\ Len(stack) = 1 =>
                 /\ result'.slot = stripModifiers(Top.t)
                 /\ result'.inst = ctype[stripModifiers(Top.t)]
            /\ Len(stack) > 1 => ret'.inst = ctype[stripModifiers(Top.t)]]_vars

C19_Witness ==
  /\ Idle
  /\ result = [fn |-> "getIrType", arg |-> "cpS", create |-> FALSE,
                slot |-> "pS", inst |-> NoIrType]
  /\ ctype["pS"] = NoIrType /\ ctype["probe"] # NoIrType

\* the types whose lowering the lowering of t asks for: the element of a
\* composite, the fields of a record or class
Deps(t) ==
  LET ty == TypeTable[t].ty IN
  CASE ty \in {"Tpointer", "Tsarray", "Tarray", "Tvector"} ->
         {stripModifiers(ElementOf(t))}
    [] ty \in {"Tstruct", "Tclass"} ->
         {stripModifiers(TypeTable[t].fields[i]) :
            i \in 1..Len(TypeTable[t].fields)}
    [] OTHER -> {}

RECURSIVE Reach(_)
\* ts and every type the lowering of one of ts leads to
Reach(ts) ==
  LET more == ts \cup UNION {Deps(t) : t \in ts}
  IN  IF more = ts THEN ts ELSE Reach(more)

RECURSIVE MachineType(_)
\* the machine type of the unqualified type u on the target, by structure
MachineType(u) ==
  LET ty == Ty(u)
      elem == MemType(MachineType(stripModifiers(ElementOf(u))))
  IN  CASE ty \in {"Tstruct", "Tclass"} -> LLNamed(u)
        [] ty = "Tint8" -> LLInt(8)
        [] ty = "Tnull" -> LLPointer(LLInt(8), 0)
        [] ty = "Tpointer" -> LLPointer(elem, 0)
        [] ty = "Tsarray" -> LLArray(elem, TypeTable[u].dim)
        [] ty = "Tarray" ->
             LLStruct(<<LLInt(IF triple.arch = "x86" THEN 32 ELSE 64),
                        LLPointer(elem, 0)>>, FALSE)
        [] ty = "Tvector" ->
             LLVector(elem, TypeTable[nextOf(u)].dim, FALSE)

\* every populated slot holds the machine type its type has by structure
SlotsByStructure ==
  \A u \in UnqualifiedTypes :
    ctype[u] # NoIrType => ctype[u].type = MachineType(u)

\* a returned getIrType(t, true) has populated every slot t leads to
RequestLowered ==
  CreateReturned =>
    \A u \in Reach({stripModifiers(result.arg)}) : ctype[u] # NoIrType

\* a slot changes only from empty to populated, and only during a
\* getIrType(t, true) that leads to its type
OnlyRequestedSlots ==
  \A u \in Types :
    ctype'[u] # ctype[u] =>
      /\ ctype[u] = NoIrType
      /\ stack # <<>>
      /\ Outermost.fn = "getIrType" /\ Outermost.create
      /\ u \in Reach({stripModifiers(Outermost.arg)})

\* C20: after any sequence of returned getIrType(t, true) calls the
\* populated slots are exactly those of the types the requested types lead
\* to, and each holds the machine type its type has by structure on the
\* target: both depend on the set of requested types and not on the order
\* of the requests.
C20_OrderIndependent ==
  /\ [](SlotsByStructure /\ RequestLowered)
  /\ [][OnlyRequestedSlots]_vars

C20_Witness ==
  /\ CreateReturned /\ result.arg = "pS"
  /\ built["pS"] = 1 /\ built["S"] = 1
  /\ ctype["apS"] # NoIrType /\ ctype["sL"] # NoIrType
  /\ ctype["C"] = NoIrType /\ ctype["ab"] = NoIrType

====
